---- MODULE Spec2Model ----
(***************************************************************************)
(* Model of file-import-task.js: runTask walks the files of a versioned    *)
(* filesystem, keeps those that are new or newer than their stored record  *)
(* (plus deletions), splits them into size-bounded batches, and commits    *)
(* one batch after the other, emitting filesFound / processBatch /         *)
(* progress / end.                                                         *)
(*                                                                         *)
(* One action is one callback of the node event loop: everything the       *)
(* callback does synchronously (async.waterfall / async.cargo /            *)
(* async.mapSeries bookkeeping included) is part of the action.  The       *)
(* store (lvfs) and ./util are collaborators whose code is not in the      *)
(* source file; they are modelled from their documented contract.          *)
(***************************************************************************)
EXTENDS Integers, Sequences, FiniteSets, TLC

VARIABLES
    disk,           \* files on disk, in enumeration order: <<[path, stat]>>
    store,          \* lvfs storage: normalized path -> newest record
    thenDo,         \* TRUE iff runTask was given a completion callback
    pc,             \* the operation in flight / the callback expected next
    found,          \* findResult.files handed on by walkFiles
    tasks,          \* async.cargo: queued tasks not yet handed to the worker
    chunk,          \* async.cargo: the tasks of the worker call in flight
    allFiles,       \* filterFilesThatAreInStorage: allFiles
    allNewFiles,    \* filterFilesThatAreInStorage: allNewFiles
    changeSet,      \* the files passed to the third waterfall task
    allBatches,     \* the batches as createBatches produced them
    batches,        \* processBatches: batches still to shift
    batch,          \* processBatches: the batch being processed
    idx,            \* async.mapSeries: index of the entry being processed
    fileRecords,    \* async.mapSeries: results so far
    dsc,            \* the descriptor given to createVersionRecord (in flight)
    submitted,      \* the records given to addVersions (in flight)
    filesProcessed, \* runTask: filesProcessed
    totalFiles,     \* runTask: totalFiles
    run,            \* number of the current invocation of runTask
    log             \* history: every call, callback and emitted event

vars == <<disk, store, thenDo, pc, found, tasks, chunk, allFiles, allNewFiles,
          changeSet, allBatches, batches, batch, idx, fileRecords, dsc,
          submitted, filesProcessed, totalFiles, run, log>>

-----------------------------------------------------------------------------
(* Bounds and program constants *)

MaxFiles == 4

MaxRuns == 2

queryLimit == 3

batchMaxFileSize == 67108864

HalfSize == batchMaxFileSize \div 2

\* Paths of the versioned directory, normalized form, in enumeration order.
PathList == <<"d/a", "b", "c", "e", "g", "h">>

NPaths == {PathList[i] : i \in 1..MaxFiles}

\* The same file as the platform's path module reports it where the
\* separator is a backslash.
RawPath(p) == IF p = "d/a" THEN "d\\a" ELSE p

\* lvfs.normalizePath: consistent separator.
normalizePath(p) == IF p = "d\\a" THEN "d/a" ELSE p

Null == "null"

\* the value standing for an undefined date
NoDate == 0 - 1

SeqToSet(s) == {s[i] : i \in 1..Len(s)}

IndexOf(s, x) ==
    IF \E i \in 1..Len(s) : s[i] = x
    THEN CHOOSE i \in 1..Len(s) : s[i] = x /\ \A j \in 1..(i-1) : s[j] # x
    ELSE 0

SelectIdx(s, Test(_)) ==
    LET F[i \in 0..Len(s)] ==
            IF i = 0 THEN <<>>
            ELSE IF Test(s[i]) THEN Append(F[i-1], s[i]) ELSE F[i-1]
    IN  F[Len(s)]

MapSeq(s, Op(_)) == [i \in 1..Len(s) |-> Op(s[i])]

-----------------------------------------------------------------------------
(* Data *)

\* stat of an enumerated file; mime is TRUE iff stat.mime is truthy
Stat(size, mtime, mime) == [size |-> size, mtime |-> mtime, mime |-> mime]

\* line 116: { path: file, stat: { size: 0 } }: mtime and mime are undefined
FakeStat == Stat(0, NoDate, FALSE)

FileInfo(p, st) == [path |-> p, stat |-> st]

NullStat == Stat(-1, NoDate, FALSE)

NoRec == [has |-> FALSE, date |-> NoDate, exists |-> FALSE]

Rec(date, exists) == [has |-> TRUE, date |-> date, exists |-> exists]

\* result slot of a per-file step that produced no record (null / undefined)
NullRecord == [path |-> "", change |-> Null, date |-> NoDate,
               stat |-> NullStat, content |-> Null]

Entry(ev) == [ev |-> ev, err |-> Null, path |-> "", files |-> <<>>,
              recs |-> <<>>, loaded |-> 0, total |-> 0, onlyImportNew |-> FALSE]

Min(a, b) == IF a < b THEN a ELSE b

-----------------------------------------------------------------------------
(* The store and ./util, from their contract *)

\* lvfs.getRecords({paths, newest: true, attributes: ['path','date']}): the
\* newest record of each queried path, under its normalized path.
getRecordsByPaths(st, paths) ==
    LET known == SelectIdx(paths, LAMBDA p : st[normalizePath(p)].has)
    IN  MapSeq(known, LAMBDA p : [path |-> normalizePath(p),
                                  date |-> st[normalizePath(p)].date])

\* lvfs.getRecords({newest: true, exists: true, attributes: ['path']}): every
\* path whose newest record is not a deletion.
getRecordsExisting(st) ==
    LET all == [i \in 1..MaxFiles |-> PathList[i]]
        live == SelectIdx(all, LAMBDA p : st[p].has /\ st[p].exists)
    IN  MapSeq(live, LAMBDA p : [path |-> p, date |-> st[p].date])

\* lvfs.createVersionRecord(fields, thenDo): the record of one version; its
\* date is the given one, or else the file's mtime.
createVersionRecord(d) ==
    [path |-> d.path, change |-> d.change,
     date |-> IF d.date # NoDate THEN d.date ELSE d.stat.mtime,
     stat |-> d.stat, content |-> d.content]

\* lvfs.addVersions(records, {onlyImportNew: true}, thenDo): each record
\* becomes the newest record of its path.
RECURSIVE addVersions(_, _)
addVersions(st, recs) ==
    IF recs = <<>> THEN st
    ELSE LET r == Head(recs)
         IN  addVersions([st EXCEPT ![normalizePath(r.path)] =
                              Rec(r.date, r.change # "deletion")],
                         Tail(recs))

\* lvFsUtil.sumFileSize
RECURSIVE sumFileSize(_)
sumFileSize(b) ==
    IF b = <<>> THEN 0 ELSE Head(b).stat.size + sumFileSize(Tail(b))

-----------------------------------------------------------------------------
(* filterFilesThatAreInStorage, lines 78-121 *)

\* lines 92-103: the files of a chunk that are not in the DB or are newer
newFilesOf(files, versionRecords) ==
    LET pathsInDB == MapSeq(versionRecords, LAMBDA rec : rec.path)
        isNew(file) ==
            LET filePath == normalizePath(file.path)
                i == IndexOf(pathsInDB, filePath)
            IN  IF i = 0 THEN TRUE
                ELSE versionRecords[i].date < file.stat.mtime
    IN  SelectIdx(files, isNew)

\* lines 111-117: stored paths that were not enumerated, as fake fileinfos
deletedFilesOf(versionRecords, enumerated) ==
    LET recordFiles == MapSeq(versionRecords, LAMBDA rec : rec.path)
        gone == SelectIdx(recordFiles, LAMBDA i : IndexOf(enumerated, i) = 0)
    IN  MapSeq(gone, LAMBDA file : FileInfo(file, FakeStat))

\* as concatFiles, the deletions put first
concatFiles_DeletionsFirst(newFiles, deletedFiles) == deletedFiles \o newFiles

\* line 118: allNewFiles.concat(deletedFiles)
concatFiles(newFiles, deletedFiles) == newFiles \o deletedFiles

\* async.cargo process(): hand the next queryLimit tasks to the worker, which
\* records their paths and queries the store (lines 84-86); with no task left
\* call cargo.drain, which queries all existing paths (line 110).
CargoProcess(ts, lg) ==
    IF ts = <<>>
    THEN /\ pc' = "getRecordsAll"
         /\ tasks' = ts
         /\ chunk' = <<>>
         /\ allFiles' = allFiles
         /\ log' = Append(lg, Entry("getRecordsAll"))
    ELSE LET n == Min(queryLimit, Len(ts))
             files == SubSeq(ts, 1, n)
         IN  /\ pc' = "getRecords"
             /\ tasks' = SubSeq(ts, n + 1, Len(ts))
             /\ chunk' = files
             /\ allFiles' = allFiles \o MapSeq(files, LAMBDA f : f.path)
             /\ log' = Append(lg, [Entry("getRecords") EXCEPT !.files = files])

\* as Finish, the completion callback called before the end event is emitted
Finish_CallbackFirst(lg, err) ==
    /\ pc' = "done"
    /\ log' = IF thenDo
              THEN lg \o <<[Entry("callback") EXCEPT !.err = err],
                           [Entry("end") EXCEPT !.err = err]>>
              ELSE Append(lg, [Entry("end") EXCEPT !.err = err])

\* the final callback of async.waterfall, lines 156-159
Finish(lg, err) ==
    /\ pc' = "done"
    /\ log' = IF thenDo
              THEN lg \o <<[Entry("end") EXCEPT !.err = err],
                           [Entry("callback") EXCEPT !.err = err]>>
              ELSE Append(lg, [Entry("end") EXCEPT !.err = err])

-----------------------------------------------------------------------------
(* createBatches, lines 66-76 *)

\* as batchConstrained, without the clause for a batch of one entry
batchConstrained_NoSingle(b) ==
    \/ Len(b) < Len(b)
    \/ sumFileSize(b) < batchMaxFileSize

\* as batchConstrained, a cumulative size equal to the ceiling accepted
batchConstrained_AtMost(b) ==
    \/ Len(b) = 1
    \/ Len(b) < Len(b)
    \/ sumFileSize(b) <= batchMaxFileSize

\* lines 68-73
batchConstrained(b) ==
    \/ Len(b) = 1
    \/ Len(b) < Len(b)
    \/ sumFileSize(b) < batchMaxFileSize

\* lvFsUtil.batchify(files, batchConstrained): greedy and order preserving;
\* an entry joins the current batch while the batch stays constrained, else
\* the batch is closed and the entry starts the next one.  A constraint that
\* refuses a single entry is an error (ok = FALSE).
RECURSIVE batchifyFrom(_, _, _)
batchifyFrom(done, cur, rest) ==
    IF rest = <<>>
    THEN [ok |-> TRUE, batches |-> IF cur = <<>> THEN done ELSE Append(done, cur)]
    ELSE LET candidate == Append(cur, Head(rest))
         IN  IF batchConstrained(candidate)
             THEN batchifyFrom(done, candidate, Tail(rest))
             ELSE IF cur = <<>>
                  THEN [ok |-> FALSE, batches |-> done]
                  ELSE batchifyFrom(Append(done, cur), <<>>, rest)

batchify(files) == batchifyFrom(<<>>, <<>>, files)

\* line 74
createBatches(files) == batchify(files)

-----------------------------------------------------------------------------
(* processFile / processBatch / processBatches, lines 18-64 and 142-155 *)

\* as selectRecords, every result kept
selectRecords_All(results) == results

\* line 62: fileRecords.select(function(ea) { return !!ea; })
selectRecords(results) == SelectIdx(results, LAMBDA ea : ea # NullRecord)

\* as shift, taking the last batch (batches.pop())
shift_Pop(bs) == [batch |-> bs[Len(bs)], rest |-> SubSeq(bs, 1, Len(bs) - 1)]

\* line 144: batches.shift() removes and returns the first batch
shift(bs) == [batch |-> Head(bs), rest |-> Tail(bs)]

\* as deletionFields, the date left with its milliseconds
deletionFields_Millis(fi, now) ==
    [path |-> fi.path, change |-> "deletion", date |-> now,
     stat |-> NullStat, content |-> Null]

\* as deletionFields, the stat of the fileinfo passed on
deletionFields_KeepStat(fi, now) ==
    [path |-> fi.path, change |-> "deletion", date |-> (now \div 1000) * 1000,
     stat |-> fi.stat, content |-> Null]

\* lines 27-33: the fields of a deletion record; the date is the current time
\* as an ISO string with its millisecond digits replaced by 000
deletionFields(fi, now) ==
    [path |-> fi.path, change |-> "deletion", date |-> (now \div 1000) * 1000,
     stat |-> NullStat, content |-> Null]

\* lines 50-54: the fields of the record of a file that was read
versionFields(fi) ==
    [path |-> fi.path, change |-> Null, date |-> NoDate,
     stat |-> fi.stat, content |-> "content"]

\* as hasNoContent, no file taken to be without content
hasNoContent_Never(fi) == FALSE

\* line 44
hasNoContent(fi) == fi.stat.size = 0 /\ ~fi.stat.mime

\* line 21: processFile asks whether the file exists
StartFile(b, i, lg) ==
    /\ pc' = "exists"
    /\ idx' = i
    /\ log' = Append(lg, [Entry("exists") EXCEPT !.path = b[i].path])

\* async.mapSeries: the per-file step called back with (err, record).  The
\* result is stored; after an error or after the last entry the final callback
\* (lines 61-63) hands the records that are set to addVersions, whatever err
\* is; otherwise the next entry is processed.  The log entry of the
\* addVersions call keeps the err that the final callback was given.
FileDone(err, record, lg) ==
    LET results == Append(fileRecords, record) IN
    /\ fileRecords' = results
    /\ IF err # Null \/ idx = Len(batch)
       THEN /\ pc' = "addVersions"
            /\ idx' = idx
            /\ submitted' = selectRecords(results)
            /\ log' = Append(lg, [Entry("addVersions") EXCEPT
                                      !.recs = selectRecords(results),
                                      !.err = err,
                                      !.onlyImportNew = TRUE])
       ELSE /\ StartFile(batch, idx + 1, lg)
            /\ submitted' = submitted

\* lines 144-147: take the next batch; without one the waterfall is finished,
\* else announce the batch and start its first file
ProcessBatches(bs, lg) ==
    IF bs = <<>>
    THEN /\ Finish(lg, Null)
         /\ UNCHANGED <<batches, batch, idx, fileRecords>>
    ELSE LET b == shift(bs).batch IN
         /\ batches' = shift(bs).rest
         /\ batch' = b
         /\ fileRecords' = <<>>
         /\ StartFile(b, 1, Append(lg, [Entry("processBatch") EXCEPT !.files = b]))

\* as loadedAfter, counting the records handed to addVersions
loadedAfter_Records(processed, b) == processed + Len(submitted)

\* line 149: filesProcessed + batch.length
loadedAfter(processed, b) == processed + Len(b)

\* as AfterBatch, going on with the next batch whatever err is
AfterBatch_IgnoreErr(err, lg) == ProcessBatches(batches, lg)

\* lines 152-153: after the progress event, stop on an error, else go on
\* with the next batch
AfterBatch(err, lg) ==
    IF err # Null
    THEN /\ Finish(lg, err)
         /\ UNCHANGED <<batches, batch, idx, fileRecords>>
    ELSE ProcessBatches(batches, lg)

-----------------------------------------------------------------------------
(* Initial states *)

\* stat.size, stat.mime and stat.mtime of the file at each path
FileSizes == <<HalfSize, batchMaxFileSize, 0, HalfSize, 0, 1>>

FileMimes == <<TRUE, TRUE, FALSE, TRUE, TRUE, TRUE>>

FileMTimes == <<2000, 3000, 2000, 1000, 3000, 2000>>

\* The records a path can have in the store before the run: none, or one
\* dated 2000 (older than, as old as, or newer than the file's mtime)
StoredRecs == {NoRec, Rec(2000, TRUE)}

\* The declared sizes tried on createBatches
BatchSizes == {0, 1, HalfSize, batchMaxFileSize - 1, batchMaxFileSize}

\* The values new Date() takes at line 29, in milliseconds
NowValues == {3000, 3456}

\* The directory holding the files numbered in onDisk; raw: the platform
\* reports paths with its own separator
DiskOf(onDisk, raw) ==
    LET present == SelectIdx([i \in 1..MaxFiles |-> i], LAMBDA i : i \in onDisk)
    IN  MapSeq(present, LAMBDA i :
            FileInfo(IF raw THEN RawPath(PathList[i]) ELSE PathList[i],
                     Stat(FileSizes[i], FileMTimes[i], FileMimes[i])))

\* The state of a run at the callback `at`, nothing done yet, with `files`
\* as the outcome of detection
Fresh(d, st, cb, at, files) ==
    /\ disk = d
    /\ store = st
    /\ thenDo = cb
    /\ run = 1
    /\ pc = at
    /\ found = <<>>
    /\ tasks = <<>>
    /\ chunk = <<>>
    /\ allFiles = <<>>
    /\ allNewFiles = <<>>
    /\ changeSet = files
    /\ allBatches = <<>>
    /\ batches = <<>>
    /\ batch = <<>>
    /\ idx = 0
    /\ fileRecords = <<>>
    /\ dsc = NullRecord
    /\ submitted = <<>>
    /\ filesProcessed = 0
    /\ totalFiles = 0
    /\ log = <<>>

\* runTask has been called (lines 128-133): walkFiles is under way
Init ==
    \E onDisk \in SUBSET (1..MaxFiles), raw \in BOOLEAN, cb \in BOOLEAN,
       st \in [NPaths -> StoredRecs] :
        Fresh(DiskOf(onDisk, raw), st, cb, "walkFiles", <<>>)

\* The records tried on detection: none, an existing one older than, as old
\* as or newer than any mtime, or a deletion
DetectRecs == {NoRec, Rec(1000, TRUE), Rec(2000, TRUE), Rec(3000, TRUE),
               Rec(2000, FALSE)}

\* runTask has been called, with any stored records
InitDetect ==
    \E onDisk \in SUBSET (1..MaxFiles), raw \in BOOLEAN,
       st \in [NPaths -> DetectRecs] :
        Fresh(DiskOf(onDisk, raw), st, TRUE, "walkFiles", <<>>)

\* createBatches is about to be applied (line 140) to a list of files with
\* any declared sizes
InitBatches ==
    \E n \in 0..MaxFiles :
        \E sizes \in [1..n -> BatchSizes] :
            Fresh(<<>>, [p \in NPaths |-> NoRec], TRUE, "filesFound",
                  [i \in 1..n |-> FileInfo(PathList[i], Stat(sizes[i], 2000, TRUE))])

-----------------------------------------------------------------------------
(* Actions: one per callback *)

\* line 133: walkFiles calls back
WalkFilesDone(ok) ==
    /\ pc = "walkFiles"
    /\ IF ok
       THEN /\ found' = disk
            /\ pc' = "filter"
            /\ log' = Append(log, Entry("walkFilesDone"))
       ELSE /\ found' = found
            /\ Finish(Append(log, [Entry("walkFilesDone") EXCEPT !.err = "WalkError"]),
                      "WalkError")
    /\ UNCHANGED <<disk, store, thenDo, tasks, chunk, allFiles, allNewFiles,
                   changeSet, allBatches, batches, batch, idx, fileRecords, dsc,
                   submitted, filesProcessed, totalFiles, run>>

\* lines 134-136 and 83-108: the second waterfall task creates the cargo and
\* pushes every file
FilterFiles ==
    /\ pc = "filter"
    /\ tasks' = found
    /\ pc' = "cargoProcess"
    /\ UNCHANGED <<disk, store, thenDo, found, chunk, allFiles, allNewFiles,
                   changeSet, allBatches, batches, batch, idx, fileRecords, dsc,
                   submitted, filesProcessed, totalFiles, run, log>>

\* the cargo's first process(), scheduled by push
CargoStart ==
    /\ pc = "cargoProcess"
    /\ CargoProcess(tasks, log)
    /\ UNCHANGED <<disk, store, thenDo, found, allNewFiles,
                   changeSet, allBatches, batches, batch, idx, fileRecords, dsc,
                   submitted, filesProcessed, totalFiles, run>>

\* lines 86-106: the query of a chunk calls back
ChunkRecords(ok) ==
    /\ pc = "getRecords"
    /\ IF ok
       THEN LET versionRecords ==
                    getRecordsByPaths(store, MapSeq(chunk, LAMBDA f : f.path))
            IN  /\ allNewFiles' = allNewFiles \o newFilesOf(chunk, versionRecords)
                /\ CargoProcess(tasks, Append(log, [Entry("getRecordsDone") EXCEPT
                                                      !.recs = versionRecords]))
       ELSE /\ Finish(Append(log, [Entry("getRecordsDone") EXCEPT
                                       !.err = "LookupError"]), "LookupError")
            /\ UNCHANGED <<tasks, chunk, allFiles, allNewFiles>>
    /\ UNCHANGED <<disk, store, thenDo, found,
                   changeSet, allBatches, batches, batch, idx, fileRecords, dsc,
                   submitted, filesProcessed, totalFiles, run>>

\* lines 110-119: the query of all existing paths calls back.  err is not
\* looked at: a store that calls back with an error and no records makes line
\* 111 throw, one that passes an empty list lets detection go on.
AllRecords(res) ==
    /\ pc = "getRecordsAll"
    /\ LET versionRecords == IF res = "ok" THEN getRecordsExisting(store) ELSE <<>>
           lg == Append(log, [Entry("getRecordsAllDone") EXCEPT
                                  !.err = IF res = "ok" THEN Null ELSE "LookupError",
                                  !.recs = versionRecords])
       IN  IF res = "errorNoRecords"
           THEN /\ pc' = "thrown"
                /\ log' = lg
                /\ changeSet' = changeSet
           ELSE /\ pc' = "filesFound"
                /\ log' = lg
                /\ changeSet' = concatFiles(allNewFiles,
                                            deletedFilesOf(versionRecords, allFiles))
    /\ UNCHANGED <<disk, store, thenDo, found, tasks, chunk, allFiles, allNewFiles,
                   allBatches, batches, batch, idx, fileRecords, dsc,
                   submitted, filesProcessed, totalFiles, run>>

\* lines 137-141: the third waterfall task
FilesFound ==
    /\ pc = "filesFound"
    /\ log' = Append(log, [Entry("filesFound") EXCEPT !.files = changeSet])
    /\ LET r == createBatches(changeSet)
       IN  /\ pc' = IF r.ok THEN "processBatches" ELSE "thrown"
           /\ allBatches' = r.batches
           /\ batches' = r.batches
    /\ UNCHANGED <<disk, store, thenDo, found, tasks, chunk, allFiles, allNewFiles,
                   changeSet, batch, idx, fileRecords, dsc,
                   submitted, filesProcessed, totalFiles, run>>

\* lines 142-147: the fourth waterfall task, first call of processBatches
FirstBatch ==
    /\ pc = "processBatches"
    /\ ProcessBatches(batches, log)
    /\ UNCHANGED <<disk, store, thenDo, found, tasks, chunk, allFiles, allNewFiles,
                   changeSet, allBatches, dsc,
                   submitted, filesProcessed, totalFiles, run>>

\* the file of the batch entry fi is on disk
OnDisk(fi) ==
    \E i \in 1..Len(disk) : normalizePath(disk[i].path) = normalizePath(fi.path)

\* lines 23-35: fs.exists calls back.  A file that was enumerated may have
\* been removed since (gone); then, or when there never was a file, the
\* fields of a deletion are handed to createVersionRecord at the time now.
ExistsResult(gone, now) ==
    /\ pc = "exists"
    /\ LET fi == batch[idx]
           exists == OnDisk(fi) /\ ~gone
       IN  /\ disk' = IF gone
                      THEN SelectIdx(disk, LAMBDA f :
                               normalizePath(f.path) # normalizePath(fi.path))
                      ELSE disk
           /\ IF exists
              THEN /\ pc' = "readFile"
                   /\ dsc' = dsc
                   /\ log' = Append(log, [Entry("readFile") EXCEPT !.path = fi.path])
              ELSE /\ pc' = "createVersionRecord"
                   /\ dsc' = deletionFields(fi, now)
                   /\ log' = Append(log, [Entry("createVersionRecord") EXCEPT
                                              !.path = fi.path,
                                              !.recs = <<deletionFields(fi, now)>>])
    /\ UNCHANGED <<store, thenDo, found, tasks, chunk, allFiles, allNewFiles,
                   changeSet, allBatches, batches, batch, idx, fileRecords,
                   submitted, filesProcessed, totalFiles, run>>

\* lines 37-55: fs.readFile calls back
ReadResult(ok) ==
    /\ pc = "readFile"
    /\ LET fi == batch[idx]
           lg == Append(log, [Entry("readFileDone") EXCEPT
                                  !.path = fi.path,
                                  !.err = IF ok THEN Null ELSE "ReadError"])
       IN  IF ~ok
           THEN FileDone("ReadError", NullRecord, lg) /\ dsc' = dsc
           ELSE IF hasNoContent(fi)
           THEN FileDone(Null, NullRecord, lg) /\ dsc' = dsc
           ELSE /\ pc' = "createVersionRecord"
                /\ dsc' = versionFields(fi)
                /\ log' = Append(lg, [Entry("createVersionRecord") EXCEPT
                                          !.path = fi.path,
                                          !.recs = <<versionFields(fi)>>])
                /\ UNCHANGED <<idx, fileRecords, submitted>>
    /\ UNCHANGED <<disk, store, thenDo, found, tasks, chunk, allFiles, allNewFiles,
                   changeSet, allBatches, batches, batch,
                   filesProcessed, totalFiles, run>>

\* lvfs.createVersionRecord calls back into async.mapSeries (thenDo of
\* processFile)
CreateResult(ok) ==
    /\ pc = "createVersionRecord"
    /\ LET lg == Append(log, [Entry("createVersionRecordDone") EXCEPT
                                  !.path = batch[idx].path,
                                  !.err = IF ok THEN Null ELSE "RecordError"])
       IN  IF ok
           THEN FileDone(Null, createVersionRecord(dsc), lg)
           ELSE FileDone("RecordError", NullRecord, lg)
    /\ UNCHANGED <<disk, store, thenDo, found, tasks, chunk, allFiles, allNewFiles,
                   changeSet, allBatches, batches, batch, dsc,
                   filesProcessed, totalFiles, run>>

\* lines 147-154: lvfs.addVersions calls back
AddVersionsResult(ok) ==
    /\ pc = "addVersions"
    /\ LET err == IF ok THEN Null ELSE "CommitError"
           loaded == loadedAfter(filesProcessed, batch)
           lg == log \o <<[Entry("addVersionsDone") EXCEPT !.err = err],
                          [Entry("progress") EXCEPT !.loaded = loaded,
                                                    !.total = totalFiles]>>
       IN  /\ filesProcessed' = loaded
           /\ store' = IF ok THEN addVersions(store, submitted) ELSE store
           /\ AfterBatch(err, lg)
    /\ UNCHANGED <<disk, thenDo, found, tasks, chunk, allFiles, allNewFiles,
                   changeSet, allBatches, dsc, submitted, totalFiles, run>>

\* the caller runs the task again after a run in which no operation failed
\* and that ended without error
RunAgain ==
    /\ pc = "done"
    /\ run < MaxRuns
    /\ \A i \in 1..Len(log) : log[i].err = Null
    /\ pc' = "walkFiles"
    /\ run' = run + 1
    /\ found' = <<>>
    /\ tasks' = <<>>
    /\ chunk' = <<>>
    /\ allFiles' = <<>>
    /\ allNewFiles' = <<>>
    /\ changeSet' = <<>>
    /\ allBatches' = <<>>
    /\ batches' = <<>>
    /\ batch' = <<>>
    /\ idx' = 0
    /\ fileRecords' = <<>>
    /\ dsc' = NullRecord
    /\ submitted' = <<>>
    /\ filesProcessed' = 0
    /\ totalFiles' = 0
    /\ log' = <<>>
    /\ UNCHANGED <<disk, store, thenDo>>

-----------------------------------------------------------------------------
(* Specifications *)

Detect ==
    \/ \E ok \in BOOLEAN : WalkFilesDone(ok)
    \/ FilterFiles
    \/ CargoStart
    \/ \E ok \in BOOLEAN : ChunkRecords(ok)
    \/ \E res \in {"ok", "errorNoRecords", "errorEmptyList"} : AllRecords(res)

Next ==
    \/ Detect
    \/ FilesFound
    \/ FirstBatch
    \/ \E gone \in BOOLEAN, now \in NowValues : ExistsResult(gone, now)
    \/ \E ok \in BOOLEAN : ReadResult(ok)
    \/ \E ok \in BOOLEAN : CreateResult(ok)
    \/ \E ok \in BOOLEAN : AddVersionsResult(ok)

\* one run of runTask
Spec == Init /\ [][Next]_vars

\* enumeration and detection, up to the change set
SpecDetect == InitDetect /\ [][Detect]_vars

\* createBatches alone, on any list of files
SpecBatches == InitBatches /\ [][FilesFound]_vars

NextRerun == Next \/ RunAgain

\* runTask, run again after it succeeded
SpecRerun == Init /\ [][NextRerun]_vars

-----------------------------------------------------------------------------
(* Properties *)

\* the emitted events and the calls and callbacks of the log
EntriesOf(kinds) == SelectIdx(log, LAMBDA e : e.ev \in kinds)

Has(kind) == \E i \in 1..Len(log) : log[i].ev = kind

PathsOf(files) == {normalizePath(files[i].path) : i \in 1..Len(files)}

\* detection has called back without any failed lookup
Detected ==
    /\ pc = "filesFound"
    /\ \A i \in 1..Len(log) : log[i].err = Null

\* the enumerated file of path p
FoundFile(p) == CHOOSE f \in SeqToSet(found) : normalizePath(f.path) = p

\* C1: when all lookups succeed the change set holds a path iff (a) the path
\* was enumerated and has no stored record or an mtime strictly later than
\* the record's date, or (b) the path has an existing record and was not
\* enumerated.
C1_ChangeSetIffChanged ==
    Detected =>
        \A p \in NPaths :
            p \in PathsOf(changeSet) <=>
                \/ /\ p \in PathsOf(found)
                   /\ \/ ~store[p].has
                      \/ FoundFile(p).stat.mtime > store[p].date
                \/ /\ store[p].has /\ store[p].exists
                   /\ p \notin PathsOf(found)

Events == EntriesOf({"filesFound", "processBatch", "progress", "end", "callback"})

CountOf(s, kind) == Cardinality({i \in 1..Len(s) : s[i].ev = kind})

\* C2: filesFound is emitted at most once and before any processBatch; every
\* processBatch is followed by exactly one progress before the next
\* processBatch or end; end is emitted at most once and nothing is emitted
\* after it; the completion callback is invoked at most once, right after end
\* and with the error value of end.
C2_NotificationOrder ==
    LET E == Events IN
    /\ CountOf(E, "filesFound") <= 1
    /\ CountOf(E, "end") <= 1
    /\ CountOf(E, "callback") <= 1
    /\ \A i \in 1..Len(E) :
        /\ E[i].ev = "processBatch" =>
              /\ \E j \in 1..(i-1) : E[j].ev = "filesFound"
              /\ i < Len(E) => E[i+1].ev = "progress"
        /\ E[i].ev = "progress" => i > 1 /\ E[i-1].ev = "processBatch"
        /\ E[i].ev = "end" => \A j \in (i+1)..Len(E) : E[j].ev = "callback"
        /\ E[i].ev = "callback" =>
              i > 1 /\ E[i-1].ev = "end" /\ E[i].err = E[i-1].err

\* a run that had two batches, failed on the second commit and told the caller
C2_Witness ==
    /\ pc = "done"
    /\ CountOf(Events, "progress") = 2
    /\ CountOf(Events, "filesFound") = 1
    /\ Events[Len(Events)].ev = "callback"
    /\ Events[Len(Events)].err = "CommitError"

\* how many of the log's entries before the n-th are of the kind
Before(n, kind) == Cardinality({i \in 1..(n-1) : log[i].ev = kind})

RawPathsOf(files) == {files[i].path : i \in 1..Len(files)}

\* C3: batches are processed one at a time and in the order createBatches
\* produced them: a processBatch event is emitted only when every batch
\* announced before has had its addVersions call back, it announces the next
\* batch of the list, and every file check, file read, record creation and
\* addVersions call is for an entry of the one batch then in flight.
C3_BatchesOneAtATime ==
    \A i \in 1..Len(log) :
        LET started == Before(i, "processBatch")
            finished == Before(i, "addVersionsDone")
        IN  /\ log[i].ev = "processBatch" =>
                  /\ started = finished
                  /\ started < Len(allBatches)
                  /\ log[i].files = allBatches[started + 1]
            /\ log[i].ev \in {"exists", "readFile", "createVersionRecord"} =>
                  /\ started = finished + 1
                  /\ log[i].path \in RawPathsOf(allBatches[started])
            /\ log[i].ev = "addVersions" =>
                  /\ started = finished + 1
                  /\ RawPathsOf(log[i].recs) \subseteq RawPathsOf(allBatches[started])

\* a finished run of three batches
C3_Witness ==
    /\ pc = "done"
    /\ Len(allBatches) = 3
    /\ Before(Len(log) + 1, "addVersionsDone") = 3

\* the callbacks of the store and of the filesystem
Callbacks == {"walkFilesDone", "getRecordsDone", "getRecordsAllDone",
              "readFileDone", "createVersionRecordDone", "addVersionsDone"}

\* C4: a failed fs.readFile (no other operation of the run failing) is fatal
\* to the run: no batch is processed after it, and end and the completion
\* callback carry the read error.
C4_ReadErrorIsFatal ==
    \A i \in 1..Len(log) :
        (/\ log[i].ev = "readFileDone" /\ log[i].err = "ReadError"
         /\ \A h \in 1..Len(log) :
               (h # i /\ log[h].ev \in Callbacks) => log[h].err = Null) =>
            \A j \in (i+1)..Len(log) :
                /\ log[j].ev # "processBatch"
                /\ log[j].ev \in {"end", "callback"} => log[j].err = "ReadError"

\* C5: when addVersions fails, progress is still emitted and the run ends
\* there: nothing but progress, end and the completion callback follows, and
\* end and the callback carry the commit error.
C5_CommitErrorEndsRun ==
    \A i \in 1..Len(log) :
        (log[i].ev = "addVersionsDone" /\ log[i].err = "CommitError") =>
            LET rest == SubSeq(log, i + 1, Len(log)) IN
            /\ pc = "done"
            /\ Len(rest) = IF thenDo THEN 3 ELSE 2
            /\ rest[1].ev = "progress"
            /\ rest[2].ev = "end" /\ rest[2].err = "CommitError"
            /\ thenDo => rest[3].ev = "callback" /\ rest[3].err = "CommitError"

\* a commit failed while batches were still waiting
C5_Witness ==
    /\ \E i \in 1..Len(log) :
          log[i].ev = "addVersionsDone" /\ log[i].err = "CommitError"
    /\ batches # <<>>
    /\ thenDo

\* C6: a failed getRecords query (of a chunk or of all existing paths) ends
\* the run at once: nothing but end and the completion callback follows, both
\* carrying the lookup error.
C6_LookupErrorAbortsDetection ==
    \A i \in 1..Len(log) :
        (log[i].ev \in {"getRecordsDone", "getRecordsAllDone"}
            /\ log[i].err = "LookupError") =>
            /\ pc = "done"
            /\ \A j \in (i+1)..Len(log) :
                  log[j].ev \in {"end", "callback"} /\ log[j].err = "LookupError"

\* C7: whatever fails, the run goes on until end has been emitted and the
\* completion callback invoked: a run that can take no further step has ended.
C7_RunEnds == pc = "done" \/ ENABLED Next

RECURSIVE Flatten(_)
Flatten(bs) == IF bs = <<>> THEN <<>> ELSE Head(bs) \o Flatten(Tail(bs))

\* C8: createBatches partitions the change set in order: the batches
\* concatenated are the change set, no entry is in two batches, no batch is
\* empty, and an empty change set gives no batch and no error.
C8_BatchesPartition ==
    Has("filesFound") =>
        /\ pc # "thrown"
        /\ Flatten(allBatches) = changeSet
        /\ \A k \in 1..Len(allBatches) : allBatches[k] # <<>>
        /\ \A k1, k2 \in 1..Len(allBatches) :
              k1 # k2 => SeqToSet(allBatches[k1]) \cap SeqToSet(allBatches[k2]) = {}
        /\ changeSet = <<>> => allBatches = <<>>

\* four files batched into a batch of one file and a batch of three
C8_Witness ==
    /\ Has("filesFound")
    /\ Len(changeSet) = 4
    /\ Len(allBatches) = 2
    /\ Len(allBatches[1]) = 1

\* C9: every batch has one entry or a cumulative stat.size below 2^26; a file
\* of 2^26 bytes or more is batched alone.
C9_BatchSizeBound ==
    Has("filesFound") =>
        /\ \A k \in 1..Len(allBatches) :
              Len(allBatches[k]) = 1 \/ sumFileSize(allBatches[k]) < 2^26
        /\ \A i \in 1..Len(changeSet) :
              changeSet[i].stat.size >= 2^26 =>
                  \E k \in 1..Len(allBatches) : allBatches[k] = <<changeSet[i]>>

\* a batch of two files one byte below the ceiling, after an oversized file
C9_Witness ==
    /\ Has("filesFound")
    /\ \E k \in 1..Len(allBatches) :
          Len(allBatches[k]) = 2 /\ sumFileSize(allBatches[k]) = 2^26 - 1
    /\ \E k \in 1..Len(allBatches) : sumFileSize(allBatches[k]) >= 2^26

\* C10: after a run that succeeded, a second run over the same files finds an
\* empty change set.
C10_SecondRunFindsNothing ==
    (run = 2 /\ Detected) => changeSet = <<>>

\* the index of the last entry of a kind before entry n of the log, 0 if none
LastBefore(n, kinds) ==
    LET is == {i \in 1..(n-1) : log[i].ev \in kinds}
    IN IF is = {} THEN 0 ELSE CHOOSE i \in is : \A j \in is : j <= i

\* the loaded value of the last progress before entry n of the log, 0 if none
LoadedBefore(n) ==
    LET i == LastBefore(n, {"progress"})
    IN IF i = 0 THEN 0 ELSE log[i].loaded

\* the batch being processed at entry n of the log
BatchAt(n) == log[LastBefore(n, {"processBatch"})].files

\* the run has ended without an error
Succeeded == \E i \in 1..Len(log) : log[i].ev = "end" /\ log[i].err = Null

\* C11: the loaded value of each progress notification is that of the
\* previous one (0 for the first) plus the length of the batch just committed,
\* and when a run has ended without error the loaded value of its last
\* progress is the number of entries of the change set filesFound carried.
C11_LoadedCountsBatches ==
    /\ \A i \in 1..Len(log) :
           log[i].ev = "progress" =>
               log[i].loaded = LoadedBefore(i) + Len(BatchAt(i))
    /\ Succeeded =>
           \A i \in 1..Len(log) :
               log[i].ev = "filesFound" =>
                   LoadedBefore(Len(log) + 1) = Len(log[i].files)

C11_Witness ==
    /\ Succeeded
    /\ CountOf(log, "progress") >= 2
    /\ LoadedBefore(Len(log) + 1) = Len(changeSet)
    /\ Len(changeSet) >= 3
    /\ \E i \in 1..Len(log) : log[i].ev = "addVersions" /\ Len(log[i].recs) < Len(BatchAt(i))

\* C12: the total of every progress notification is the number of entries of
\* the change set filesFound carried.
C12_TotalIsChangeSetSize ==
    \A i \in 1..Len(log) :
        log[i].ev = "progress" => log[i].total = Len(changeSet)

\* the records the store returned to the chunk lookups so far
ChunkRecordsSeen ==
    UNION {SeqToSet(log[i].recs) : i \in {j \in 1..Len(log) : log[j].ev = "getRecordsDone"}}

\* C13: a file is read, and a record of its path handed to
\* createVersionRecord or addVersions, only if its path is in the change
\* set; an enumerated file whose stored record is dated not earlier than the
\* file's mtime is never read.
C13_UnchangedNeverRead ==
    /\ \A i \in 1..Len(log) :
           /\ log[i].ev = "readFile" => log[i].path \in RawPathsOf(changeSet)
           /\ log[i].ev \in {"createVersionRecord", "addVersions"} =>
                  RawPathsOf(log[i].recs) \subseteq RawPathsOf(changeSet)
    /\ \A f \in SeqToSet(found) : \A r \in ChunkRecordsSeen :
           (r.path = normalizePath(f.path) /\ ~(r.date < f.stat.mtime)) =>
               \A i \in 1..Len(log) :
                   log[i].ev = "readFile" =>
                       normalizePath(log[i].path) # normalizePath(f.path)

\* a deletion record: no stat, no content, a date of whole seconds
IsDeletionRecord(r) ==
    /\ r.change = "deletion"
    /\ r.stat = NullStat
    /\ r.content = Null
    /\ r.date # NoDate
    /\ r.date % 1000 = 0

\* the paths of the existing records the final query returned
ExistingSeen ==
    {r.path : r \in UNION {SeqToSet(log[i].recs) :
                  i \in {j \in 1..Len(log) : /\ log[j].ev = "getRecordsAllDone"
                                             /\ log[j].err = Null}}}

\* the paths with an existing stored record and no enumerated file
Vanished == {p \in ExistingSeen : p \notin PathsOf(found)}

\* C14: once detection has called back with every lookup succeeded, each path
\* with an existing stored record and no file on disk has exactly one entry
\* in the change set, the synthesized one (size 0), and every record built
\* or committed for it is a deletion record: change 'deletion', stat null,
\* content null, the date with its millisecond digits zeroed.
C14_DeletionsSynthesized ==
    Has("filesFound") =>
        \A p \in Vanished :
            /\ \E k \in 1..Len(changeSet) :
                   /\ changeSet[k] = FileInfo(p, FakeStat)
                   /\ \A m \in 1..Len(changeSet) : changeSet[m].path = p => m = k
            /\ \A i \in 1..Len(log) :
                   log[i].ev \in {"createVersionRecord", "addVersions"} =>
                       \A n \in 1..Len(log[i].recs) :
                           log[i].recs[n].path = p => IsDeletionRecord(log[i].recs[n])

C14_Witness ==
    /\ Cardinality(Vanished) >= 2
    /\ \E i \in 1..Len(log) :
           /\ log[i].ev = "addVersionsDone" /\ log[i].err = Null
           /\ \A p \in Vanished :
                  \E n \in 1..Len(log[i-1].recs) :
                      /\ log[i-1].recs[n].path = p
                      /\ IsDeletionRecord(log[i-1].recs[n])

\* entry i of the log is a createVersionRecord call made because fs.exists
\* found no file for an enumerated entry of the change set
IsRaceAt(i) ==
    /\ i > 1
    /\ log[i].ev = "createVersionRecord"
    /\ log[i-1].ev = "exists"
    /\ \E f \in SeqToSet(found) : f.path = log[i-1].path /\ f \in SeqToSet(changeSet)

\* the index of the addVersions call that ends the batch of entry i, 0 if
\* not made yet
AddVersionsAfter(i) ==
    LET is == {j \in (i+1)..Len(log) : log[j].ev = "addVersions"}
    IN IF is = {} THEN 0 ELSE CHOOSE j \in is : \A k \in is : j <= k

\* the position of a path in a list of fileinfos, 0 if absent
PosIn(files, p) == IndexOf(MapSeq(files, LAMBDA f : f.path), p)

\* C15: when an enumerated file of the change set is gone by the time
\* processFile checks it, a deletion record with null stat and content is
\* built for its path; when that succeeds the step is no error: the next
\* entry of the batch is processed next, or, after the last entry,
\* addVersions is called without error, and the batch's addVersions call
\* carries the deletion record.
C15_VanishedFileBecomesDeletion ==
    \A i \in 1..Len(log) :
        IsRaceAt(i) =>
            LET p == log[i-1].path
                b == BatchAt(i)
                a == AddVersionsAfter(i)
            IN  /\ log[i].recs[1].path = p
                /\ IsDeletionRecord(log[i].recs[1])
                /\ (Len(log) >= i + 2 /\ log[i+1].err = Null) =>
                       /\ IF PosIn(b, p) < Len(b)
                            THEN /\ log[i+2].ev = "exists"
                                 /\ log[i+2].path = b[PosIn(b, p) + 1].path
                            ELSE /\ log[i+2].ev = "addVersions"
                                 /\ log[i+2].err = Null
                       /\ a # 0 =>
                              \E n \in 1..Len(log[a].recs) :
                                  /\ log[a].recs[n].path = p
                                  /\ IsDeletionRecord(log[a].recs[n])

C15_Witness ==
    \E i \in 1..Len(log) :
        /\ IsRaceAt(i)
        /\ PosIn(BatchAt(i), log[i-1].path) < Len(BatchAt(i))
        /\ AddVersionsAfter(i) # 0
        /\ log[AddVersionsAfter(i)].err = Null
        /\ Len(log[AddVersionsAfter(i)].recs) >= 2
        /\ Has("addVersionsDone")

\* entry i of the log is the successful read of a file of size 0 without a
\* mime type
IsSkipAt(i) ==
    /\ log[i].ev = "readFileDone"
    /\ log[i].err = Null
    /\ \E f \in SeqToSet(BatchAt(i)) : /\ f.path = log[i].path
                                    /\ f.stat.size = 0
                                    /\ ~f.stat.mime

\* C16: a file that is on disk with size 0 and no mime type is skipped: no
\* record is built for it, the next entry of its batch is processed next or,
\* after the last entry, addVersions is called without error, and the
\* batch's addVersions call carries no record of its path.
C16_EmptyFileSkipped ==
    \A i \in 1..Len(log) :
        IsSkipAt(i) =>
            LET p == log[i].path
                b == BatchAt(i)
                a == AddVersionsAfter(i)
            IN  /\ Len(log) > i =>
                       IF PosIn(b, p) < Len(b)
                         THEN /\ log[i+1].ev = "exists"
                              /\ log[i+1].path = b[PosIn(b, p) + 1].path
                         ELSE /\ log[i+1].ev = "addVersions"
                              /\ log[i+1].err = Null
                /\ a # 0 => p \notin RawPathsOf(log[a].recs)

C16_Witness ==
    \E i \in 1..Len(log) :
        /\ IsSkipAt(i)
        /\ PosIn(BatchAt(i), log[i].path) < Len(BatchAt(i))
        /\ AddVersionsAfter(i) # 0
        /\ log[AddVersionsAfter(i)].err = Null
        /\ Len(log[AddVersionsAfter(i)].recs) >= 1
        /\ log[i].path \notin RawPathsOf(log[AddVersionsAfter(i)].recs)
        /\ \E j \in 1..Len(log) : log[j].ev = "addVersionsDone" /\ log[j].err = Null

\* the entries of the log between the processBatch before entry a and entry a
StepsBefore(a) == SubSeq(log, LastBefore(a, {"processBatch"}) + 1, a - 1)

\* the completions of a per-file step
StepDone == {"readFileDone", "createVersionRecordDone"}

\* C17: for a batch whose per-file steps all succeeded, addVersions is called
\* once, after the step of the last entry has completed, with onlyImportNew
\* true and exactly the records built for the batch, none of them null, in
\* batch order; the steps start in batch order, each after the previous one
\* has completed, and a read is followed by its completion before anything
\* else happens.
C17_AddVersionsAfterAllSteps ==
    \A a \in 1..Len(log) :
        (log[a].ev = "addVersions" /\ log[a].err = Null) =>
            LET b == BatchAt(a)
                steps == StepsBefore(a)
                starts == SelectIdx(steps, LAMBDA e : e.ev = "exists")
                built == SelectIdx(steps, LAMBDA e : e.ev = "createVersionRecord")
            IN  /\ LastBefore(a, {"addVersions"}) < LastBefore(a, {"processBatch"})
                /\ log[a].onlyImportNew
                /\ MapSeq(starts, LAMBDA e : e.path) = MapSeq(b, LAMBDA f : f.path)
                /\ log[a-1].ev \in StepDone
                /\ \A j \in 2..Len(steps) :
                       /\ steps[j].ev = "exists" => steps[j-1].ev \in StepDone
                       /\ steps[j-1].ev = "readFile" =>
                              /\ steps[j].ev = "readFileDone"
                              /\ steps[j].path = steps[j-1].path
                /\ log[a].recs = MapSeq(built, LAMBDA e : createVersionRecord(e.recs[1]))
                /\ \A n \in 1..Len(log[a].recs) : log[a].recs[n] # NullRecord
                /\ \A n \in 1..(Len(log[a].recs) - 1) :
                       PosIn(b, log[a].recs[n].path) < PosIn(b, log[a].recs[n+1].path)

C17_Witness ==
    \E a \in 1..Len(log) :
        /\ log[a].ev = "addVersions" /\ log[a].err = Null
        /\ Len(BatchAt(a)) >= 3
        /\ Len(log[a].recs) >= 2
        /\ Len(log[a].recs) < Len(BatchAt(a))

\* C18: after a per-file step of a batch has failed, nothing more is done
\* for that batch: no entry is checked or read, no record is built and
\* addVersions is not called.
C18_FailedStepAbortsBatch ==
    \A i \in 1..Len(log) :
        (log[i].ev \in StepDone /\ log[i].err # Null) =>
            \A j \in (i+1)..Len(log) :
                LastBefore(j, {"processBatch"}) < i =>
                    log[j].ev \notin {"exists", "readFile",
                                      "createVersionRecord", "addVersions"}

\* C19: a file that was enumerated, under whatever spelling of its path, is
\* never in the change set as a synthesized deletion.
C19_EnumeratedNeverDeleted ==
    pc = "filesFound" =>
        \A k \in 1..Len(changeSet) :
            changeSet[k].stat = FakeStat =>
                normalizePath(changeSet[k].path) \notin PathsOf(found)

\* the chunks handed to the store so far, in order
ChunksLookedUp == MapSeq(EntriesOf({"getRecords"}), LAMBDA e : e.files)

\* no enumeration or chunk lookup has failed so far
LookupsSucceeded ==
    \A i \in 1..Len(log) :
        log[i].ev \in {"walkFilesDone", "getRecordsDone"} => log[i].err = Null

\* C20: the query for all existing stored paths is issued at most once; when
\* it is issued every chunk lookup has called back without error and the
\* chunks looked up are the whole enumerated list; it has been issued as
\* soon as the last chunk lookup has succeeded, also for an empty list; it
\* is never issued after a failed chunk lookup. When it has succeeded the
\* change set is the new or modified files, in enumeration order, followed
\* by the synthesized deletions.
C20_ExistingQueriedOnceAtTheEnd ==
    /\ CountOf(log, "getRecordsAll") <= 1
    /\ \A i \in 1..Len(log) :
           log[i].ev = "getRecordsAll" =>
               /\ Before(i, "getRecords") = Before(i, "getRecordsDone")
               /\ \A j \in 1..(i-1) : log[j].err = Null
               /\ Flatten(ChunksLookedUp) = found
    /\ (/\ Has("walkFilesDone")
        /\ LookupsSucceeded
        /\ pc \notin {"filter", "cargoProcess", "getRecords"}) =>
           CountOf(log, "getRecordsAll") = 1
    /\ ~LookupsSucceeded => ~Has("getRecordsAll")
    /\ (pc = "filesFound" /\ \A i \in 1..Len(log) : log[i].err = Null) =>
           LET isFake(f) == f.stat = FakeStat
               isReal(f) == f.stat # FakeStat
               news == SelectIdx(changeSet, isReal)
               dels == SelectIdx(changeSet, isFake)
               kept(f) == f \in SeqToSet(news)
           IN  /\ changeSet = news \o dels
               /\ news = SelectIdx(found, kept)

C20_Witness ==
    /\ pc = "filesFound"
    /\ \A i \in 1..Len(log) : log[i].err = Null
    /\ Len(ChunksLookedUp) = 2
    /\ \E k \in 1..Len(changeSet) : changeSet[k] \in SeqToSet(ChunksLookedUp[1])
    /\ \E k \in 1..Len(changeSet) : changeSet[k] \in SeqToSet(ChunksLookedUp[2])
    /\ CountOf(log, "getRecordsAll") = 1

====
